---- MODULE Spec2Model ----
(***************************************************************************)
(* Model of the thumbnail generation engine of yml/thumbnailer:            *)
(* ThumbnailerMessage.GenerateThumbnails and its per-option goroutines     *)
(* (thumbnailer.go), driven by the nsq consumer's HandleMessage.           *)
(*                                                                         *)
(* Strings are sequences of one-character strings, so that url.Parse,      *)
(* filepath.Ext/Base/Join, strings.ToLower/TrimSuffix and fmt.Sprintf are  *)
(* computed character by character as the Go code computes them.           *)
(***************************************************************************)
EXTENDS Integers, Sequences, FiniteSets, TLC

(***************************************************************************)
(* Bounds                                                                  *)
(***************************************************************************)
\* largest number of options (len(tm.Opts)) in a job
MaxOpts == 2

(***************************************************************************)
(* Characters and strings                                                  *)
(***************************************************************************)
LowerLetters ==
  <<"a","b","c","d","e","f","g","h","i","j","k","l","m",
    "n","o","p","q","r","s","t","u","v","w","x","y","z">>

UpperLetters ==
  <<"A","B","C","D","E","F","G","H","I","J","K","L","M",
    "N","O","P","Q","R","S","T","U","V","W","X","Y","Z">>

DecDigits == <<"0","1","2","3","4","5","6","7","8","9">>

\* printable ASCII in code order, used by %XX decoding: code points 32..95
\* and 97..126
AsciiLow ==
  <<" ","!","\"","#","$","%","&","'","(",")","*","+",",","-",".","/",
    "0","1","2","3","4","5","6","7","8","9",":",";","<","=",">","?",
    "@","A","B","C","D","E","F","G","H","I","J","K","L","M","N","O",
    "P","Q","R","S","T","U","V","W","X","Y","Z","[","\\","]","^","_">>

AsciiHigh ==
  <<"a","b","c","d","e","f","g","h","i","j","k","l","m","n","o",
    "p","q","r","s","t","u","v","w","x","y","z","{","|","}","~">>

\* the byte with the given code; a byte outside the two tables is kept as an
\* opaque token that equals no character of the alphabet
ByteChar(code) ==
  IF code >= 32 /\ code <= 95 THEN AsciiLow[code - 31]
  ELSE IF code >= 97 /\ code <= 126 THEN AsciiHigh[code - 96]
  ELSE "byte"

Range(s) == { s[i] : i \in 1..Len(s) }

IndexOf(s, c) == CHOOSE i \in 1..Len(s) : s[i] = c

SetMax(S) == CHOOSE m \in S : \A n \in S : n <= m

SetMin(S) == CHOOSE m \in S : \A n \in S : m <= n

HasPrefix(s, p) == Len(s) >= Len(p) /\ SubSeq(s, 1, Len(p)) = p

HasSuffix(s, p) == Len(s) >= Len(p) /\ SubSeq(s, Len(s) - Len(p) + 1, Len(s)) = p

\* s[from:] of Go, with 1-based from
Drop(s, from) == SubSeq(s, from, Len(s))

\* strings.ToLower, on the ASCII letters
ToLowerChar(c) ==
  IF c \in Range(UpperLetters) THEN LowerLetters[IndexOf(UpperLetters, c)] ELSE c

ToLower(s) == [i \in 1..Len(s) |-> ToLowerChar(s[i])]

\* strings.TrimSuffix
TrimSuffix(s, suffix) ==
  IF HasSuffix(s, suffix) THEN SubSeq(s, 1, Len(s) - Len(suffix)) ELSE s

\* the %d verb of fmt.Sprintf
RECURSIVE FormatInt(_)
FormatInt(n) ==
  IF n < 0 THEN <<"-">> \o FormatInt(-n)
  ELSE IF n < 10 THEN <<DecDigits[n + 1]>>
  ELSE FormatInt(n \div 10) \o <<DecDigits[(n % 10) + 1]>>

(***************************************************************************)
(* path/filepath                                                           *)
(***************************************************************************)
\* filepath.Ext: the suffix beginning at the final dot of the final element
Ext(path) ==
  LET dots == { i \in 1..Len(path) :
                  path[i] = "." /\ \A j \in i..Len(path) : path[j] # "/" }
  IN  IF dots = {} THEN <<>> ELSE Drop(path, SetMax(dots))

RECURSIVE StripTrailingSlashes(_)
StripTrailingSlashes(path) ==
  IF Len(path) > 0 /\ path[Len(path)] = "/"
    THEN StripTrailingSlashes(SubSeq(path, 1, Len(path) - 1))
    ELSE path

\* filepath.Base
Base(path) ==
  IF path = <<>> THEN <<".">>
  ELSE LET p  == StripTrailingSlashes(path)
           sl == { i \in 1..Len(p) : p[i] = "/" }
           e  == IF sl = {} THEN p ELSE Drop(p, SetMax(sl) + 1)
       IN  IF e = <<>> THEN <<"/">> ELSE e

\* the elements of a path between its slashes, empty ones included
RECURSIVE SplitSlash(_)
SplitSlash(path) ==
  LET sl == { i \in 1..Len(path) : path[i] = "/" }
  IN  IF sl = {} THEN <<path>>
      ELSE <<SubSeq(path, 1, SetMin(sl) - 1)>> \o SplitSlash(Drop(path, SetMin(sl) + 1))

\* the element stack of filepath.Clean: "" and "." are dropped, ".." removes
\* the element before it (at the root it is dropped, elsewhere it is kept)
RECURSIVE CleanElems(_, _, _)
CleanElems(elems, out, rooted) ==
  IF elems = <<>> THEN out
  ELSE LET e    == Head(elems)
           rest == Tail(elems)
       IN  IF e = <<>> \/ e = <<".">> THEN CleanElems(rest, out, rooted)
           ELSE IF e = <<".",".">>
             THEN IF Len(out) > 0 /\ out[Len(out)] # <<".",".">>
                    THEN CleanElems(rest, SubSeq(out, 1, Len(out) - 1), rooted)
                  ELSE IF rooted THEN CleanElems(rest, out, rooted)
                  ELSE CleanElems(rest, Append(out, e), rooted)
           ELSE CleanElems(rest, Append(out, e), rooted)

RECURSIVE JoinSlash(_)
JoinSlash(elems) ==
  IF elems = <<>> THEN <<>>
  ELSE IF Len(elems) = 1 THEN Head(elems)
  ELSE Head(elems) \o <<"/">> \o JoinSlash(Tail(elems))

\* filepath.Clean
Clean(path) ==
  IF path = <<>> THEN <<".">>
  ELSE LET rooted == path[1] = "/"
           body   == JoinSlash(CleanElems(SplitSlash(path), <<>>, rooted))
       IN  IF rooted THEN <<"/">> \o body
           ELSE IF body = <<>> THEN <<".">> ELSE body

\* filepath.Join of two elements: empty elements are ignored, the rest is
\* joined with a slash and cleaned; all empty gives ""
Join(a, b) ==
  IF a # <<>> THEN Clean(a \o <<"/">> \o b)
  ELSE IF b # <<>> THEN Clean(b)
  ELSE <<>>

(***************************************************************************)
(* net/url                                                                 *)
(***************************************************************************)
IsLetter(c) == c \in Range(LowerLetters) \/ c \in Range(UpperLetters)

IsDigit(c) == c \in Range(DecDigits)

IsHex(c) == IsDigit(c) \/ c \in {"a","b","c","d","e","f","A","B","C","D","E","F"}

HexVal(c) ==
  IF IsDigit(c) THEN IndexOf(DecDigits, c) - 1
  ELSE IndexOf(LowerLetters, ToLowerChar(c)) + 9

\* url.getscheme: (scheme, rest, err)
RECURSIVE getscheme(_, _)
getscheme(rawurl, i) ==
  IF i > Len(rawurl) THEN [err |-> "nil", scheme |-> <<>>, rest |-> rawurl]
  ELSE LET c == rawurl[i]
       IN  IF IsLetter(c) THEN getscheme(rawurl, i + 1)
           ELSE IF IsDigit(c) \/ c \in {"+", "-", "."}
             THEN IF i = 1 THEN [err |-> "nil", scheme |-> <<>>, rest |-> rawurl]
                  ELSE getscheme(rawurl, i + 1)
           ELSE IF c = ":"
             THEN IF i = 1
                    THEN [err |-> "missing protocol scheme", scheme |-> <<>>, rest |-> <<>>]
                    ELSE [err |-> "nil", scheme |-> SubSeq(rawurl, 1, i - 1),
                          rest |-> Drop(rawurl, i + 1)]
           ELSE [err |-> "nil", scheme |-> <<>>, rest |-> rawurl]

\* url.unescape in path mode, first pass: every % is followed by two hex
\* digits
RECURSIVE validEscapes(_)
validEscapes(s) ==
  IF s = <<>> THEN TRUE
  ELSE IF s[1] = "%"
    THEN Len(s) >= 3 /\ IsHex(s[2]) /\ IsHex(s[3]) /\ validEscapes(Drop(s, 4))
    ELSE validEscapes(Tail(s))

\* url.unescape in path mode, second pass: each %XX is decoded to one byte
RECURSIVE decodeEscapes(_)
decodeEscapes(s) ==
  IF s = <<>> THEN <<>>
  ELSE IF s[1] = "%"
    THEN <<ByteChar(16 * HexVal(s[2]) + HexVal(s[3]))>> \o decodeEscapes(Drop(s, 4))
    ELSE <<s[1]>> \o decodeEscapes(Tail(s))

\* url.unescape in path mode: (s, err)
unescape(s) ==
  IF validEscapes(s) THEN [err |-> "nil", s |-> decodeEscapes(s)]
  ELSE [err |-> "invalid URL escape", s |-> <<>>]

\* the zero url.URL
NoURL == [Scheme |-> <<>>, Opaque |-> <<>>, Host |-> <<>>, Path |-> <<>>]

\* url.Parse, for raw URLs without query, fragment and userinfo: the scheme is
\* split off and lower-cased, a rootless rest after a scheme is opaque, a rest
\* that begins with // carries the host, and the path is unescaped.
\* The result is (url, err); url is NoURL when err is set.
ParseURL(rawurl) ==
  LET g == getscheme(rawurl, 1)
  IN  IF g.err # "nil" THEN [url |-> NoURL, err |-> g.err]
      ELSE LET scheme == ToLower(g.scheme)
           IN  IF ~HasPrefix(g.rest, <<"/">>) /\ scheme # <<>>
                 THEN [url |-> [Scheme |-> scheme, Opaque |-> g.rest,
                                Host |-> <<>>, Path |-> <<>>],
                       err |-> "nil"]
                 ELSE LET hasAuth == HasPrefix(g.rest, <<"/","/">>)
                                     /\ (scheme # <<>> \/ ~HasPrefix(g.rest, <<"/","/","/">>))
                          after  == IF hasAuth THEN Drop(g.rest, 3) ELSE g.rest
                          sl     == { i \in 1..Len(after) : after[i] = "/" }
                          host   == IF ~hasAuth THEN <<>>
                                    ELSE IF sl = {} THEN after
                                    ELSE SubSeq(after, 1, SetMin(sl) - 1)
                          rest   == IF ~hasAuth THEN after
                                    ELSE IF sl = {} THEN <<>>
                                    ELSE Drop(after, SetMin(sl))
                          p      == unescape(rest)
                      IN  IF "%" \in Range(host)
                            THEN [url |-> NoURL, err |-> "hexadecimal escape in host"]
                          ELSE IF p.err # "nil" THEN [url |-> NoURL, err |-> p.err]
                          ELSE [url |-> [Scheme |-> scheme, Opaque |-> <<>>,
                                         Host |-> host, Path |-> p.s],
                                err |-> "nil"]

(***************************************************************************)
(* Errors.  An error value is a record: its kind and the URL it carries    *)
(* (imageOpenSaverError carries the offending URL; the others carry none). *)
(***************************************************************************)
Err(kind, u) == [kind |-> kind, url |-> u]

Nil == Err("nil", NoURL)

\* imaging.ErrUnsupportedFormat
ErrUnsupportedFormat == Err("imaging: unsupported image format", NoURL)

\* imageOpenSaverError{url}
imageOpenSaverError(u) == Err("imageOpenSaverError", u)

(***************************************************************************)
(* Images are known by their bounds; every image here has its Min at (0,0) *)
(***************************************************************************)
Image(w, h) == [W |-> w, H |-> h]

IMax(a, b) == IF a > b THEN a ELSE b

IMin(a, b) == IF a < b THEN a ELSE b

\* int(math.Max(1.0, math.Floor(float64(a)*float64(b)/float64(c) + 0.5)))
\* for non-negative a, b and positive c
AspectDim(a, b, c) == IMax(1, (2 * a * b + c) \div (2 * c))

\* toNRGBA: the pixel format changes, the bounds do not
toNRGBA(img) == img

\* rectangle.newImageRect: image.Rect orders the corners
newImageRect(r) ==
  [MinX |-> IMin(r.Min[1], r.Max[1]), MinY |-> IMin(r.Min[2], r.Max[2]),
   MaxX |-> IMax(r.Min[1], r.Max[1]), MaxY |-> IMax(r.Min[2], r.Max[2])]

\* imaging.Crop: the part of rect inside the image, moved to (0,0); an empty
\* intersection gives the empty image
Crop(img, rect) ==
  LET w == IMin(rect.MaxX, img.W) - IMax(rect.MinX, 0)
      h == IMin(rect.MaxY, img.H) - IMax(rect.MinY, 0)
  IN  IF w <= 0 \/ h <= 0 THEN Image(0, 0) ELSE Image(w, h)

\* imaging.Resize: a zero width or height is derived from the aspect ratio of
\* img, minimum 1px; negative sizes, 0x0 and an empty img give the empty image
Resize(img, width, height) ==
  IF width < 0 \/ height < 0 THEN Image(0, 0)
  ELSE IF width = 0 /\ height = 0 THEN Image(0, 0)
  ELSE IF img.W <= 0 \/ img.H <= 0 THEN Image(0, 0)
  ELSE LET dstW == IF width = 0 THEN AspectDim(height, img.W, img.H) ELSE width
           dstH == IF height = 0 THEN AspectDim(dstW, img.H, img.W) ELSE height
       IN  Image(dstW, dstH)

(***************************************************************************)
(* The job: ThumbnailerMessage and ThumbnailOpt.  A nil *rectangle is the  *)
(* empty sequence, a non-nil one a sequence of one rectangle.              *)
(***************************************************************************)
ThumbnailOpt(dstImage, rect, width, height) ==
  [DstImage |-> dstImage, Rect |-> rect, Width |-> width, Height |-> height]

ThumbnailerMessage(srcImage, deleteSrc, dstFolder, opts) ==
  [SrcImage |-> srcImage, DeleteSrc |-> deleteSrc, DstFolder |-> dstFolder, Opts |-> opts]

\* the formats map: extension -> imaging.Format
formats ==
  { <<".","j","p","g">>, <<".","j","p","e","g">>, <<".","p","n","g">>,
    <<".","t","i","f">>, <<".","t","i","f","f">>, <<".","b","m","p">>,
    <<".","g","i","f">> }

(***************************************************************************)
(* NewImageOpenSaver: the store handle for a URL, by its scheme.  Called   *)
(* with a nil *url.URL, the read of url.Scheme is a nil dereference.       *)
(* A pointer is [nil, url].                                                *)
(***************************************************************************)
Ptr(u) == [nil |-> FALSE, url |-> u]

NilPtr == [nil |-> TRUE, url |-> NoURL]

\* NewImageOpenSaver whose default case falls back to the filesystem store
NewImageOpenSaverDefaultFs(p) ==
  IF p.nil THEN [panic |-> TRUE, store |-> "none", URL |-> NoURL, err |-> Nil]
  ELSE IF p.url.Scheme = <<"s","3">>
    THEN [panic |-> FALSE, store |-> "s3", URL |-> p.url, err |-> Nil]
  ELSE [panic |-> FALSE, store |-> "fs", URL |-> p.url, err |-> Nil]

NewImageOpenSaver(p) ==
  IF p.nil THEN [panic |-> TRUE, store |-> "none", URL |-> NoURL, err |-> Nil]
  ELSE IF p.url.Scheme = <<"f","i","l","e">>
    THEN [panic |-> FALSE, store |-> "fs", URL |-> p.url, err |-> Nil]
  ELSE IF p.url.Scheme = <<"s","3">>
    THEN [panic |-> FALSE, store |-> "s3", URL |-> p.url, err |-> Nil]
  ELSE [panic |-> FALSE, store |-> "none", URL |-> NoURL,
        err |-> imageOpenSaverError(p.url)]

(***************************************************************************)
(* ThumbnailerMessage.thumbURL: (url pointer, err)                         *)
(***************************************************************************)
\* thumbName without the strings.ToLower of the extension
thumbNameKeepCase(srcImage, baseName, opt) ==
  LET ext  == Ext(srcImage)
      base == TrimSuffix(baseName, ext)
      size == FormatInt(opt.Width) \o <<"x">> \o FormatInt(opt.Height)
  IN  IF opt.Rect # <<>>
        THEN LET r == opt.Rect[1]
             IN  base \o <<"_","c">>
                   \o FormatInt(r.Min[1]) \o <<"-">> \o FormatInt(r.Min[2]) \o <<"-">>
                   \o FormatInt(r.Max[1]) \o <<"-">> \o FormatInt(r.Max[2])
                   \o <<"_","s">> \o size \o ext
      ELSE IF opt.Width = 0 /\ opt.Height = 0 THEN base
      ELSE base \o <<"_","s">> \o size \o ext

\* the file name under DstFolder: the base name without the extension of
\* SrcImage, the crop and the size, the extension in lower case
thumbName(srcImage, baseName, opt) ==
  LET ext0 == Ext(srcImage)
      base == TrimSuffix(baseName, ext0)
      ext  == ToLower(ext0)
      size == FormatInt(opt.Width) \o <<"x">> \o FormatInt(opt.Height)
  IN  IF opt.Rect # <<>>
        THEN LET r == opt.Rect[1]
             IN  base \o <<"_","c">>
                   \o FormatInt(r.Min[1]) \o <<"-">> \o FormatInt(r.Min[2]) \o <<"-">>
                   \o FormatInt(r.Max[1]) \o <<"-">> \o FormatInt(r.Max[2])
                   \o <<"_","s">> \o size \o ext
      ELSE IF opt.Width = 0 /\ opt.Height = 0 THEN base
      ELSE base \o <<"_","s">> \o size \o ext

\* thumbURL whose explicit destination is placed under DstFolder's path
thumbURLUnderDstFolder(tm, baseName, opt) ==
  IF opt.DstImage = <<>>
    THEN LET f == ParseURL(tm.DstFolder)
         IN  IF f.err # "nil"
               THEN [ptr |-> NilPtr,
                     err |-> Err("An error occured while parsing the DstFolder", NoURL)]
               ELSE [ptr |-> Ptr([f.url EXCEPT !.Path =
                                    Join(f.url.Path, thumbName(tm.SrcImage, baseName, opt))]),
                     err |-> Nil]
    ELSE LET f == ParseURL(opt.DstImage)
             d == ParseURL(tm.DstFolder)
         IN  IF f.err # "nil"
               THEN [ptr |-> NilPtr,
                     err |-> Err("An error occured while parsing the DstImage", NoURL)]
               ELSE [ptr |-> Ptr([f.url EXCEPT !.Path = Join(d.url.Path, f.url.Path)]),
                     err |-> Nil]

thumbURL(tm, baseName, opt) ==
  IF opt.DstImage = <<>>
    THEN LET f == ParseURL(tm.DstFolder)
         IN  IF f.err # "nil"
               THEN [ptr |-> NilPtr,
                     err |-> Err("An error occured while parsing the DstFolder", NoURL)]
               ELSE [ptr |-> Ptr([f.url EXCEPT !.Path =
                                    Join(f.url.Path, thumbName(tm.SrcImage, baseName, opt))]),
                     err |-> Nil]
    ELSE LET f == ParseURL(opt.DstImage)
         IN  IF f.err # "nil"
               THEN [ptr |-> NilPtr,
                     err |-> Err("An error occured while parsing the DstImage", NoURL)]
               ELSE [ptr |-> Ptr(f.url), err |-> Nil]

(***************************************************************************)
(* ThumbnailerMessage.maxThumbnail: src resized to the largest width and   *)
(* the largest height over tm.Opts, each resolved against src's bounds     *)
(***************************************************************************)
RECURSIVE maxBox(_, _, _, _)
maxBox(opts, src, maxW, maxH) ==
  IF opts = <<>> THEN [W |-> maxW, H |-> maxH]
  ELSE LET opt  == Head(opts)
           dstW == IF opt.Width = 0 THEN AspectDim(opt.Height, src.W, src.H)
                   ELSE opt.Width
           dstH == IF opt.Height = 0 THEN AspectDim(dstW, src.H, src.W)
                   ELSE opt.Height
       IN  maxBox(Tail(opts), src, IMax(maxW, dstW), IMax(maxH, dstH))

maxThumbnail(tm, src) ==
  LET box == maxBox(tm.Opts, src, 0, 0)
  IN  Resize(src, box.W, box.H)

(***************************************************************************)
(* The world outside the process: the local filesystem and the s3 buckets. *)
(* A stored file is [store, host, path, valid, img]: valid says whether    *)
(* its bytes decode, img is the image they decode to.                      *)
(***************************************************************************)
File(store, host, path, valid, img) ==
  [store |-> store, host |-> host, path |-> path, valid |-> valid, img |-> img]

\* the directories of the local filesystem
Dirs == { <<"/","t","m","p">>, <<"/","d","a","t","a">> }

\* the s3 buckets
Buckets == { <<"b","u","c","k","e","t">> }

\* the bounds of the stored source images
SrcBounds == Image(640, 480)

\* the files present before the job runs
InitialFiles ==
  { File("fs", <<>>, <<"/","d","a","t","a","/","P","i","c",".","J","P","G">>,
         TRUE, SrcBounds),
    File("s3", <<"b","u","c","k","e","t">>, <<"/","p","i","c",".","p","n","g">>,
         TRUE, SrcBounds) }

\* the location a store handle reads and writes: the filesystem store uses
\* URL.Path alone, the s3 store URL.Host as bucket and URL.Path as key
LocHost(h) == IF h.store = "s3" THEN h.URL.Host ELSE <<>>

At(fs, h) == { f \in fs : f.store = h.store /\ f.host = LocHost(h) /\ f.path = h.URL.Path }

\* the directory part of a path (everything before its last slash)
ParentDir(path) ==
  LET sl == { i \in 1..Len(path) : path[i] = "/" }
  IN  IF sl = {} THEN <<".">>
      ELSE IF SetMax(sl) = 1 THEN <<"/">>
      ELSE SubSeq(path, 1, SetMax(sl) - 1)

\* fsImageOpenSaver.Open and s3ImageOpenSaver.Open: (img, err)
Open(h, fs) ==
  IF At(fs, h) = {} THEN [img |-> Image(0, 0), err |-> Err("no such file", NoURL)]
  ELSE LET f == CHOOSE x \in At(fs, h) : TRUE
       IN  IF f.valid THEN [img |-> f.img, err |-> Nil]
           ELSE [img |-> Image(0, 0), err |-> Err("image: unknown format", NoURL)]

\* png.Encode rejects an image without pixels; the other encoders and the
\* writes themselves succeed
EncodeFails(img, ext) == ext = <<".","p","n","g">> /\ (img.W <= 0 \/ img.H <= 0)

\* Save that reports success where it has written nothing
SaveWithoutWrite(h, img, fs) ==
  IF ToLower(Ext(h.URL.Path)) \notin formats
    THEN [err |-> ErrUnsupportedFormat, files |-> fs]
    ELSE [err |-> Nil, files |-> fs]

\* fsImageOpenSaver.Save and s3ImageOpenSaver.Save: (err, files after)
\*   fs: unsupported extension -> error before anything is created;
\*       os.Create fails when the directory is missing; it truncates the
\*       file, and a failing Encode leaves it without a decodable image.
\*   s3: the image is encoded to a buffer first, then put in the bucket.
Save(h, img, fs) ==
  LET ext == ToLower(Ext(h.URL.Path))
      new(valid) == (fs \ At(fs, h)) \cup {File(h.store, LocHost(h), h.URL.Path, valid, img)}
  IN  IF ext \notin formats THEN [err |-> ErrUnsupportedFormat, files |-> fs]
      ELSE IF h.store = "fs"
        THEN IF ParentDir(h.URL.Path) \notin Dirs
               THEN [err |-> Err("open: no such file or directory", NoURL), files |-> fs]
             ELSE IF EncodeFails(img, ext)
               THEN [err |-> Err("png: invalid format: invalid image size", NoURL),
                     files |-> new(FALSE)]
             ELSE [err |-> Nil, files |-> new(TRUE)]
        ELSE IF EncodeFails(img, ext)
               THEN [err |-> Err("png: invalid format: invalid image size", NoURL),
                     files |-> fs]
             ELSE IF h.URL.Host \notin Buckets
               THEN [err |-> Err("s3: no such bucket", NoURL), files |-> fs]
             ELSE [err |-> Nil, files |-> new(TRUE)]

(***************************************************************************)
(* ThumbnailerMessage.DeleteImage: (err, files after)                      *)
(***************************************************************************)
\* DeleteImage without the test of the scheme
DeleteImageAnyScheme(tm, fs) ==
  LET s == ParseURL(tm.SrcImage)
  IN  IF s.err # "nil" THEN [err |-> Err(s.err, NoURL), files |-> fs]
      ELSE LET gone == { f \in fs : f.path = s.url.Path }
           IN  IF gone = {}
                 THEN [err |-> Err("Failed to remove", NoURL), files |-> fs]
                 ELSE [err |-> Nil, files |-> fs \ gone]

DeleteImage(tm, fs) ==
  LET s == ParseURL(tm.SrcImage)
  IN  IF s.err # "nil" THEN [err |-> Err(s.err, NoURL), files |-> fs]
      ELSE IF s.url.Scheme = <<"f","i","l","e">>
        THEN LET h == [store |-> "fs", URL |-> s.url]
             IN  IF At(fs, h) = {}
                   THEN [err |-> Err("Failed to remove", NoURL), files |-> fs]
                   ELSE [err |-> Nil, files |-> fs \ At(fs, h)]
      ELSE [err |-> Err("DeleteImage is not implemented", NoURL), files |-> fs]

(***************************************************************************)
(* The jobs the model is run on                                            *)
(***************************************************************************)
\* file:///data/Pic.JPG, present on the filesystem
SrcFilePic ==
  <<"f","i","l","e",":","/","/","/","d","a","t","a","/","P","i","c",".","J","P","G">>

\* s3://bucket/pic.png, present in the bucket
SrcS3Pic ==
  <<"s","3",":","/","/","b","u","c","k","e","t","/","p","i","c",".","p","n","g">>

\* ftp://host/pic.jpg: no store for the scheme
SrcFtp ==
  <<"f","t","p",":","/","/","h","o","s","t","/","p","i","c",".","j","p","g">>

\* %zz/pic.jpg: does not parse
SrcUnparseable == <<"%","z","z","/","p","i","c",".","j","p","g">>

\* file:///data/missing.jpg: no such file
SrcMissing ==
  <<"f","i","l","e",":","/","/","/","d","a","t","a","/","m","i","s","s","i","n","g",".","j","p","g">>

SrcImages == {SrcFilePic, SrcS3Pic, SrcFtp, SrcUnparseable, SrcMissing}

\* the sources that open: they parse, their scheme has a store and the file
\* is there
OpenableSources == {SrcFilePic, SrcS3Pic}

UnopenableSources == {SrcFtp, SrcUnparseable, SrcMissing}

\* file:///tmp
DstTmp == <<"f","i","l","e",":","/","/","/","t","m","p">>

\* :out, which does not parse
DstMalformed == <<":","o","u","t">>

DstFolders == {DstTmp, DstMalformed}

NoRect == <<>>

Rect(minX, minY, maxX, maxY) == <<[Min |-> <<minX, minY>>, Max |-> <<maxX, maxY>>]>>

OptMenu ==
  { ThumbnailOpt(<<>>, NoRect, 100, 100),
    ThumbnailOpt(<<>>, NoRect, 0, 50),
    ThumbnailOpt(<<>>, NoRect, 0, 0),
    ThumbnailOpt(<<>>, Rect(10, 10, 50, 50), 20, 20),
    \* /tmp/o.jpg              empty scheme
    ThumbnailOpt(<<"/","t","m","p","/","o",".","j","p","g">>, NoRect, 100, 100),
    \* :o.jpg                  does not parse
    ThumbnailOpt(<<":","o",".","j","p","g">>, NoRect, 100, 100),
    \* file:///tmp/out.xyz     no format for the extension
    ThumbnailOpt(<<"f","i","l","e",":","/","/","/","t","m","p","/","o","u","t",".","x","y","z">>,
                 NoRect, 100, 100),
    \* s3://bucket/o.png
    ThumbnailOpt(<<"s","3",":","/","/","b","u","c","k","e","t","/","o",".","p","n","g">>,
                 NoRect, 0, 50),
    \* file:///tmp/c.png       a crop outside the source's bounds
    ThumbnailOpt(<<"f","i","l","e",":","/","/","/","t","m","p","/","c",".","p","n","g">>,
                 Rect(700, 500, 800, 600), 200, 200) }

OptLists == UNION { [1..n -> OptMenu] : n \in 0..MaxOpts }

Jobs ==
  { ThumbnailerMessage(s, d, f, o) :
      s \in SrcImages, d \in BOOLEAN, f \in DstFolders, o \in OptLists }

(***************************************************************************)
(* State                                                                   *)
(***************************************************************************)
VARIABLES
  tm,          \* the job the handler decoded
  files,       \* the filesystem and the buckets
  crashed,     \* an unrecovered panic in a goroutine ended the process
  g_pc,        \* GenerateThumbnails: where the goroutine is
  g_sURL,      \*   sURL
  g_src,       \*   src, the source's store handle
  g_img,       \*   img
  g_maxThumb,  \*   maxThumb: <<>> is nil
  g_k,         \*   index of the next option the dispatch loop starts
  g_i,         \*   i of the collecting loop: results received so far
  g_firstErr,  \*   firstErr
  g_out,       \*   the value the goroutine is sending on errChan
  errorChan,   \* the internal results channel, capacity 1
  units,       \* the generateThumbnail goroutines, one per option
  sent,        \* per unit: number of sends on errorChan completed
  h_pc,        \* HandleMessage: where the handler is
  h_received,  \*   the values it received on errChan
  h_ret,       \*   its return value
  errChanSends,\* number of sends on errChan completed
  deleteCalls, \* number of calls of tm.DeleteImage
  results,     \* the ThumbnailResults the consumer of the result stream received
  c_pc,        \* the consumer of the result stream: where it is
  c_resp,      \*   thumbsHandler's response: status and body
  closed       \* the result stream is closed

vars ==
  <<tm, files, crashed, g_pc, g_sURL, g_src, g_img, g_maxThumb, g_k, g_i,
    g_firstErr, g_out, errorChan, units, sent, h_pc, h_received, h_ret,
    errChanSends, deleteCalls, results, c_pc, c_resp, closed>>

g_vars == <<g_pc, g_sURL, g_src, g_img, g_maxThumb, g_k, g_i, g_firstErr, g_out>>

h_vars == <<h_pc, h_received, h_ret, errChanSends, deleteCalls>>

c_vars == <<results, c_pc, c_resp, closed>>

\* make(chan error, 1)
errorChanCap == 1

NoHandle == [store |-> "none", URL |-> NoURL]

Handle(r) == [store |-> r.store, URL |-> r.URL]

N == Len(tm.Opts)

\* nothing written to the http.ResponseWriter yet
NoResponse == [status |-> 0, body |-> <<>>]

IdleUnit(opt) ==
  [pc |-> "idle", input |-> "none", img |-> Image(0, 0), opt |-> opt,
   thumbImg |-> Image(0, 0), thumbURL |-> NilPtr, urlErr |-> Nil,
   thumb |-> NoHandle, err |-> Nil]

Init ==
  /\ tm \in Jobs
  /\ files = InitialFiles
  /\ crashed = FALSE
  /\ g_pc = "parse"
  /\ g_sURL = NoURL
  /\ g_src = NoHandle
  /\ g_img = Image(0, 0)
  /\ g_maxThumb = <<>>
  /\ g_k = 1
  /\ g_i = 0
  /\ g_firstErr = Nil
  /\ g_out = Nil
  /\ errorChan = <<>>
  /\ units = [i \in 1..Len(tm.Opts) |-> IdleUnit(tm.Opts[i])]
  /\ sent = [i \in 1..Len(tm.Opts) |-> 0]
  /\ h_pc = "recv"
  /\ h_received = <<>>
  /\ h_ret = Nil
  /\ errChanSends = 0
  /\ deleteCalls = 0
  /\ results = <<>>
  /\ c_pc = "recv"
  /\ c_resp = NoResponse
  /\ closed = FALSE

(***************************************************************************)
(* GenerateThumbnails                                                      *)
(***************************************************************************)
\* sURL, err := url.Parse(tm.SrcImage); on error: errChan <- err; return
G_Parse ==
  /\ ~crashed /\ g_pc = "parse"
  /\ \E r \in {ParseURL(tm.SrcImage)} :
         IF r.err # "nil"
           THEN /\ g_pc' = "signal"
                /\ g_out' = Err(r.err, NoURL)
                /\ UNCHANGED g_sURL
           ELSE /\ g_pc' = "resolve"
                /\ g_sURL' = r.url
                /\ UNCHANGED g_out
  /\ UNCHANGED <<tm, files, crashed, g_src, g_img, g_maxThumb, g_k, g_i, g_firstErr,
                 errorChan, units, sent, h_vars, c_vars>>

\* src, err := NewImageOpenSaver(sURL); on error: errChan <- err; return
G_Resolve ==
  /\ ~crashed /\ g_pc = "resolve"
  /\ \E r \in {NewImageOpenSaver(Ptr(g_sURL))} :
         IF r.err # Nil
           THEN /\ g_pc' = "signal"
                /\ g_out' = r.err
                /\ UNCHANGED g_src
           ELSE /\ g_pc' = "open"
                /\ g_src' = Handle(r)
                /\ UNCHANGED g_out
  /\ UNCHANGED <<tm, files, crashed, g_sURL, g_img, g_maxThumb, g_k, g_i, g_firstErr,
                 errorChan, units, sent, h_vars, c_vars>>

\* G_Open with the error of src.Open() logged but not returned
G_OpenErrorNotReturned ==
  /\ ~crashed /\ g_pc = "open"
  /\ \E r \in {Open(g_src, files)} :
       /\ g_pc' = "prepare"
       /\ g_img' = r.img
       /\ UNCHANGED g_out
  /\ UNCHANGED <<tm, files, crashed, g_sURL, g_src, g_maxThumb, g_k, g_i, g_firstErr,
                 errorChan, units, sent, h_vars, c_vars>>

\* img, err := src.Open(); on error: errChan <- err; return
G_Open ==
  /\ ~crashed /\ g_pc = "open"
  /\ \E r \in {Open(g_src, files)} :
         IF r.err # Nil
           THEN /\ g_pc' = "signal"
                /\ g_out' = r.err
                /\ UNCHANGED g_img
           ELSE /\ g_pc' = "prepare"
                /\ g_img' = r.img
                /\ UNCHANGED g_out
  /\ UNCHANGED <<tm, files, crashed, g_sURL, g_src, g_maxThumb, g_k, g_i, g_firstErr,
                 errorChan, units, sent, h_vars, c_vars>>

\* AfterLoops with the collecting loop's test written i <= len(tm.Opts)
AfterLoopsOffByOne(k, i) ==
  IF k <= Len(tm.Opts) THEN "dispatch"
  ELSE IF i <= Len(tm.Opts) THEN "collect" ELSE "signal"

\* where the goroutine is once k-1 options are dispatched and i results are
\* received: in the dispatch loop, in the collecting loop, or at the send of
\* firstErr on errChan
AfterLoops(k, i) ==
  IF k <= N THEN "dispatch" ELSE IF i < N THEN "collect" ELSE "signal"

\* img = toNRGBA(img); maxThumb = tm.maxThumbnail(img) when len(tm.Opts) > 1;
\* errorChan := make(chan error, 1)
G_Prepare ==
  /\ ~crashed /\ g_pc = "prepare"
  /\ g_img' = toNRGBA(g_img)
  /\ g_maxThumb' = IF N > 1 THEN <<maxThumbnail(tm, toNRGBA(g_img))>> ELSE <<>>
  /\ errorChan' = <<>>
  /\ g_pc' = AfterLoops(1, 0)
  /\ g_out' = g_firstErr
  /\ UNCHANGED <<tm, files, crashed, g_sURL, g_src, g_k, g_i, g_firstErr,
                 units, sent, h_vars, c_vars>>

\* G_Dispatch without the test of opt.Rect: maxThumb goes to every option
G_DispatchMaxThumbToAll ==
  /\ ~crashed /\ g_pc = "dispatch"
  /\ LET opt      == tm.Opts[g_k]
         useMax   == g_maxThumb # <<>>
     IN  units' = [units EXCEPT ![g_k] =
                     [@ EXCEPT !.pc = "run",
                               !.input = IF useMax THEN "maxThumb" ELSE "img",
                               !.img = IF useMax THEN g_maxThumb[1] ELSE g_img,
                               !.opt = opt]]
  /\ g_k' = g_k + 1
  /\ g_pc' = AfterLoops(g_k + 1, 0)
  /\ UNCHANGED <<tm, files, crashed, g_sURL, g_src, g_img, g_maxThumb, g_i, g_firstErr,
                 g_out, errorChan, sent, h_vars, c_vars>>

\* one iteration of the dispatch loop: go tm.generateThumbnail(errorChan, sURL,
\* maxThumb or img, opt)
G_Dispatch ==
  /\ ~crashed /\ g_pc = "dispatch"
  /\ LET opt      == tm.Opts[g_k]
         useMax   == opt.Rect = <<>> /\ g_maxThumb # <<>>
     IN  units' = [units EXCEPT ![g_k] =
                     [@ EXCEPT !.pc = "run",
                               !.input = IF useMax THEN "maxThumb" ELSE "img",
                               !.img = IF useMax THEN g_maxThumb[1] ELSE g_img,
                               !.opt = opt]]
  /\ g_k' = g_k + 1
  /\ g_pc' = AfterLoops(g_k + 1, 0)
  /\ UNCHANGED <<tm, files, crashed, g_sURL, g_src, g_img, g_maxThumb, g_i, g_firstErr,
                 g_out, errorChan, sent, h_vars, c_vars>>

\* G_Collect that returns at the first error received, as the consumers' own
\* generateThumbnails did
G_CollectFirstErrorWins ==
  /\ ~crashed /\ g_pc = "collect"
  /\ errorChan # <<>>
  /\ LET err == Head(errorChan)
     IN  /\ g_firstErr' = err
         /\ g_out' = err
         /\ g_pc' = IF err # Nil THEN "signal" ELSE AfterLoops(g_k, g_i + 1)
  /\ errorChan' = Tail(errorChan)
  /\ g_i' = g_i + 1
  /\ UNCHANGED <<tm, files, crashed, g_sURL, g_src, g_img, g_maxThumb, g_k,
                 units, sent, h_vars, c_vars>>

\* G_Collect that keeps the last non-nil error it receives
G_CollectLastErrorWins ==
  /\ ~crashed /\ g_pc = "collect"
  /\ errorChan # <<>>
  /\ LET err   == Head(errorChan)
         first == IF err # Nil THEN err ELSE g_firstErr
     IN  /\ g_firstErr' = first
         /\ g_out' = first
  /\ errorChan' = Tail(errorChan)
  /\ g_i' = g_i + 1
  /\ g_pc' = AfterLoops(g_k, g_i + 1)
  /\ UNCHANGED <<tm, files, crashed, g_sURL, g_src, g_img, g_maxThumb, g_k,
                 units, sent, h_vars, c_vars>>

\* one iteration of the collecting loop: err := <-errorChan; the first
\* non-nil error is kept
G_Collect ==
  /\ ~crashed /\ g_pc = "collect"
  /\ errorChan # <<>>
  /\ LET err   == Head(errorChan)
         first == IF err # Nil /\ g_firstErr = Nil THEN err ELSE g_firstErr
     IN  /\ g_firstErr' = first
         /\ g_out' = first
  /\ errorChan' = Tail(errorChan)
  /\ g_i' = g_i + 1
  /\ g_pc' = AfterLoops(g_k, g_i + 1)
  /\ UNCHANGED <<tm, files, crashed, g_sURL, g_src, g_img, g_maxThumb, g_k,
                 units, sent, h_vars, c_vars>>

(***************************************************************************)
(* generateThumbnail, one goroutine per option                             *)
(***************************************************************************)
\* the computation up to the store handle: crop, resize or clone, the
\* option's zero width/height replaced by the thumbnail's bounds, the
\* thumbnail's URL (an error is logged and execution goes on with the nil
\* URL), NewImageOpenSaver(thumbURL)
generateThumbnail(job, srcURL, img, opt) ==
  LET cropped  == IF opt.Rect # <<>> THEN Crop(img, newImageRect(opt.Rect[1])) ELSE img
      thumbImg == IF opt.Width = 0 /\ opt.Height = 0 THEN toNRGBA(cropped)
                  ELSE Resize(cropped, opt.Width, opt.Height)
      named    == [opt EXCEPT !.Width  = IF @ = 0 THEN thumbImg.W ELSE @,
                              !.Height = IF @ = 0 THEN thumbImg.H ELSE @]
      u        == thumbURL(job, Base(srcURL.Path), named)
      t        == NewImageOpenSaver(u.ptr)
  IN  [thumbImg |-> thumbImg, opt |-> named, thumbURL |-> u.ptr, urlErr |-> u.err,
       panic |-> t.panic, thumb |-> Handle(t), err |-> t.err]

\* U_Run whose opt is the element of tm.Opts itself, not a copy of it: the
\* resolved width and height are written into the job
U_RunOptByReference(i) ==
  /\ ~crashed /\ units[i].pc = "run"
  /\ \E r \in {generateThumbnail(tm, g_sURL, units[i].img, units[i].opt)} :
         /\ units' = [units EXCEPT ![i] =
                        [@ EXCEPT !.pc = IF r.panic THEN "panic"
                                         ELSE IF r.err # Nil THEN "send"
                                         ELSE "save",
                                  !.opt = r.opt,
                                  !.thumbImg = r.thumbImg,
                                  !.thumbURL = r.thumbURL,
                                  !.urlErr = r.urlErr,
                                  !.thumb = r.thumb,
                                  !.err = r.err]]
         /\ tm' = [tm EXCEPT !.Opts[i] = r.opt]
         /\ crashed' = r.panic
  /\ UNCHANGED <<files, g_vars, errorChan, sent, h_vars, c_vars>>

\* from the start of generateThumbnail to the call of thumb.Save; a store
\* error goes to errorChan, a nil dereference ends the process
U_Run(i) ==
  /\ ~crashed /\ units[i].pc = "run"
  /\ \E r \in {generateThumbnail(tm, g_sURL, units[i].img, units[i].opt)} :
         /\ units' = [units EXCEPT ![i] =
                        [@ EXCEPT !.pc = IF r.panic THEN "panic"
                                         ELSE IF r.err # Nil THEN "send"
                                         ELSE "save",
                                  !.opt = r.opt,
                                  !.thumbImg = r.thumbImg,
                                  !.thumbURL = r.thumbURL,
                                  !.urlErr = r.urlErr,
                                  !.thumb = r.thumb,
                                  !.err = r.err]]
         /\ crashed' = r.panic
  /\ UNCHANGED <<tm, files, g_vars, errorChan, sent, h_vars, c_vars>>

\* err = thumb.Save(thumbImg)
U_Save(i) ==
  /\ ~crashed /\ units[i].pc = "save"
  /\ \E r \in {Save(units[i].thumb, units[i].thumbImg, files)} :
         /\ files' = r.files
         /\ units' = [units EXCEPT ![i] = [@ EXCEPT !.pc = "send", !.err = r.err]]
  /\ UNCHANGED <<tm, crashed, g_vars, errorChan, sent, h_vars, c_vars>>

\* errorChan <- err (or nil): blocks while the channel is full
U_Send(i) ==
  /\ ~crashed /\ units[i].pc = "send"
  /\ Len(errorChan) < errorChanCap
  /\ errorChan' = Append(errorChan, units[i].err)
  /\ sent' = [sent EXCEPT ![i] = @ + 1]
  /\ units' = [units EXCEPT ![i] = [@ EXCEPT !.pc = "done"]]
  /\ UNCHANGED <<tm, files, crashed, g_vars, h_vars, c_vars>>

(***************************************************************************)
(* thumbnailerHandler.HandleMessage, after go tm.GenerateThumbnails(errChan)*)
(***************************************************************************)
\* H_Receive without the return on a non-nil err
H_ReceiveErrNotReturned ==
  /\ ~crashed /\ h_pc = "recv" /\ g_pc = "signal"
  /\ g_pc' = "done"
  /\ errChanSends' = errChanSends + 1
  /\ h_received' = Append(h_received, g_out)
  /\ IF tm.DeleteSrc
       THEN h_pc' = "delete" /\ h_ret' = h_ret
       ELSE h_pc' = "done" /\ h_ret' = g_out
  /\ UNCHANGED <<tm, files, crashed, g_sURL, g_src, g_img, g_maxThumb, g_k, g_i,
                 g_firstErr, g_out, errorChan, units, sent, deleteCalls, c_vars>>

\* err = <-errChan, the rendezvous with GenerateThumbnails' send on the
\* unbuffered errChan, after which GenerateThumbnails returns;
\* a non-nil err is returned, otherwise the source is deleted if asked for
H_Receive ==
  /\ ~crashed /\ h_pc = "recv" /\ g_pc = "signal"
  /\ g_pc' = "done"
  /\ errChanSends' = errChanSends + 1
  /\ h_received' = Append(h_received, g_out)
  /\ IF g_out # Nil
       THEN h_pc' = "done" /\ h_ret' = g_out
       ELSE IF tm.DeleteSrc
         THEN h_pc' = "delete" /\ h_ret' = h_ret
         ELSE h_pc' = "done" /\ h_ret' = Nil
  /\ UNCHANGED <<tm, files, crashed, g_sURL, g_src, g_img, g_maxThumb, g_k, g_i,
                 g_firstErr, g_out, errorChan, units, sent, deleteCalls, c_vars>>

\* err = tm.DeleteImage(); return err
H_Delete ==
  /\ ~crashed /\ h_pc = "delete"
  /\ \E r \in {DeleteImage(tm, files)} :
         /\ files' = r.files
         /\ h_ret' = r.err
  /\ deleteCalls' = deleteCalls + 1
  /\ h_pc' = "done"
  /\ UNCHANGED <<tm, crashed, g_vars, errorChan, units, sent, h_received, errChanSends,
                 c_vars>>

Next ==
  \/ G_Parse
  \/ G_Resolve
  \/ G_Open
  \/ G_Prepare
  \/ G_Dispatch
  \/ G_Collect
  \/ \E i \in 1..N : U_Run(i)
  \/ \E i \in 1..N : U_Save(i)
  \/ \E i \in 1..N : U_Send(i)
  \/ H_Receive
  \/ H_Delete

Spec == Init /\ [][Next]_vars

(***************************************************************************)
(* The result stream.  thumbsHandler (cmd/http_thumbnailer) and the        *)
(* package's test consume one ThumbnailResult per option from              *)
(* GenerateThumbnails; that GenerateThumbnails and its generateThumbnail   *)
(* are not among the repository's files here.  They are modelled from the  *)
(* specification: steps Opening to Dispatching as above, each unit's       *)
(* failure, the output URI's included, captured in its one Result          *)
(* (sections 4.4 and 7), Results observed in any order (section 5), the    *)
(* output location present on success only (section 3), the end of the     *)
(* stream after all of them (section 4.4, step 5).                         *)
(***************************************************************************)
\* ThumbnailResult{Thumbnail, Err}
ThumbnailResult(thumbnail, err) == [Thumbnail |-> thumbnail, Err |-> err]

\* the Result of a unit that has its outcome
ResultOf(u) ==
  IF u.err = Nil THEN ThumbnailResult(u.thumbURL, Nil)
  ELSE ThumbnailResult(NilPtr, u.err)

\* a unit from its start to the call of thumb.Save: an error of the output
\* URI or of the store handle is the unit's outcome
R_Run(i) ==
  /\ units[i].pc = "run"
  /\ \E r \in {generateThumbnail(tm, g_sURL, units[i].img, units[i].opt)} :
       LET err == IF r.urlErr # Nil THEN r.urlErr ELSE r.err
       IN  units' = [units EXCEPT ![i] =
                       [@ EXCEPT !.pc = IF err # Nil THEN "send" ELSE "save",
                                 !.opt = r.opt,
                                 !.thumbImg = r.thumbImg,
                                 !.thumbURL = r.thumbURL,
                                 !.urlErr = r.urlErr,
                                 !.thumb = r.thumb,
                                 !.err = err]]
  /\ UNCHANGED <<tm, files, crashed, g_vars, errorChan, sent, h_vars, c_vars>>

\* the end of the stream, once every unit has delivered its Result
R_Close ==
  /\ g_pc = AfterLoops(N + 1, 0) /\ g_k = N + 1 /\ g_out = Nil
  /\ \A i \in 1..N : units[i].pc = "done"
  /\ ~closed
  /\ closed' = TRUE
  /\ g_pc' = "done"
  /\ UNCHANGED <<tm, files, crashed, g_sURL, g_src, g_img, g_maxThumb, g_k, g_i,
                 g_firstErr, g_out, errorChan, units, sent, h_vars, results, c_pc, c_resp>>

(***************************************************************************)
(* thumbsHandler, after go tm.GenerateThumbnails(resultChan)               *)
(***************************************************************************)
\* one iteration of for i := 0; i < len(tm.Opts); i++: result := <-resultChan,
\* the rendezvous with unit i's send on the unbuffered resultChan;
\* results = append(results, result)
T_Receive(i) ==
  /\ c_pc = "recv" /\ Len(results) < N
  /\ units[i].pc = "send"
  /\ results' = Append(results, ResultOf(units[i]))
  /\ units' = [units EXCEPT ![i] = [@ EXCEPT !.pc = "done"]]
  /\ sent' = [sent EXCEPT ![i] = @ + 1]
  /\ UNCHANGED <<tm, files, crashed, g_vars, errorChan, h_vars, c_pc, c_resp, closed>>

\* the first result of the list that carries an error, 0 if none does
FirstErr(rs) ==
  LET bad == { j \in 1..Len(rs) : rs[j].Err # Nil }
  IN  IF bad = {} THEN 0 ELSE SetMin(bad)

\* json.Marshal(results); w.Write(body)
WriteResults(rs) == [status |-> 200, body |-> rs]

\* http.Error(w, err.Error(), http.StatusInternalServerError)
InternalServerError(err) == [status |-> 500, body |-> <<err>>]

\* after the loop: the first result with an error is answered with a 500;
\* otherwise the source is deleted if asked for, or the results are written
T_Check ==
  /\ c_pc = "recv" /\ Len(results) = N
  /\ IF FirstErr(results) # 0
       THEN /\ c_resp' = InternalServerError(results[FirstErr(results)].Err)
            /\ c_pc' = "done"
       ELSE IF tm.DeleteSrc
         THEN c_pc' = "delete" /\ UNCHANGED c_resp
         ELSE c_pc' = "done" /\ c_resp' = WriteResults(results)
  /\ UNCHANGED <<tm, files, crashed, g_vars, errorChan, units, sent, h_vars, results,
                 closed>>

\* err = tm.DeleteImage(): an error is answered with a 500, otherwise the
\* results are written
T_Delete ==
  /\ c_pc = "delete"
  /\ \E r \in {DeleteImage(tm, files)} :
       /\ files' = r.files
       /\ c_resp' = IF r.err # Nil THEN InternalServerError(r.err)
                    ELSE WriteResults(results)
  /\ c_pc' = "done"
  /\ UNCHANGED <<tm, crashed, g_vars, errorChan, units, sent, h_vars, results, closed>>

\* the jobs the result stream is run on: their source opens
InitOpens == Init /\ tm.SrcImage \in OpenableSources

NextHTTP ==
  \/ G_Parse
  \/ G_Resolve
  \/ G_Open
  \/ G_Prepare
  \/ G_Dispatch
  \/ \E i \in 1..N : R_Run(i)
  \/ \E i \in 1..N : U_Save(i)
  \/ \E i \in 1..N : T_Receive(i)
  \/ T_Check
  \/ T_Delete

SpecHTTP == InitOpens /\ [][NextHTTP]_vars

(***************************************************************************)
(* A consumer ranging over the stream GenerateThumbnails returns, as the   *)
(* package's test does: for result := range results                        *)
(***************************************************************************)
\* one iteration of the range loop: the rendezvous with unit i's send
C_Range(i) ==
  /\ c_pc = "recv" /\ ~closed
  /\ units[i].pc = "send"
  /\ results' = Append(results, ResultOf(units[i]))
  /\ units' = [units EXCEPT ![i] = [@ EXCEPT !.pc = "done"]]
  /\ sent' = [sent EXCEPT ![i] = @ + 1]
  /\ UNCHANGED <<tm, files, crashed, g_vars, errorChan, h_vars, c_pc, c_resp, closed>>

\* the range loop ends when the stream is closed
C_RangeEnd ==
  /\ c_pc = "recv" /\ closed
  /\ c_pc' = "done"
  /\ UNCHANGED <<tm, files, crashed, g_vars, errorChan, units, sent, h_vars, results,
                 c_resp, closed>>

NextStream ==
  \/ G_Parse
  \/ G_Resolve
  \/ G_Open
  \/ G_Prepare
  \/ G_Dispatch
  \/ \E i \in 1..N : R_Run(i)
  \/ \E i \in 1..N : U_Save(i)
  \/ \E i \in 1..N : C_Range(i)
  \/ R_Close
  \/ C_RangeEnd

\* The Go scheduler runs every goroutine that is not blocked: each step is
\* weakly fair.  G_Parse and R_Run(i) are enabled exactly when their guard
\* holds, and their weak fairness is written with the guard for ENABLED.
FairParse == []<>(~(~crashed /\ g_pc = "parse")) \/ []<><<G_Parse>>_vars

FairRun(i) == []<>(~(i <= N /\ units[i].pc = "run")) \/ []<><<i <= N /\ R_Run(i)>>_vars

FairStream ==
  /\ FairParse
  /\ WF_vars(G_Resolve) /\ WF_vars(G_Open) /\ WF_vars(G_Prepare) /\ WF_vars(G_Dispatch)
  /\ \A i \in 1..MaxOpts : FairRun(i)
  /\ \A i \in 1..MaxOpts : WF_vars(i <= N /\ U_Save(i))
  /\ WF_vars(\E i \in 1..N : C_Range(i))
  /\ WF_vars(R_Close) /\ WF_vars(C_RangeEnd)

SpecStream == InitOpens /\ [][NextStream]_vars /\ FairStream

(***************************************************************************)
(* The consumer's own generateThumbnails (main.go, and the copy kept in    *)
(* cmd/nsq_thumbnailer/main.go): thumbnailerMessage.generateThumbnails     *)
(* returns its error instead of sending it, and its collecting loop        *)
(* returns at the first error it receives.  thumbnailerMessage has no      *)
(* DeleteSrc and thumbnailOpt no DstImage; they stay FALSE and empty.      *)
(***************************************************************************)
\* largest number of options in a job of the consumer's own generateThumbnails
MaxOwnOpts == 3

\* file:///nodir, a directory that does not exist
DstNoDir == <<"f","i","l","e",":","/","/","/","n","o","d","i","r">>

OwnDstFolders == {DstTmp, DstNoDir, DstMalformed}

OwnOptMenu ==
  { ThumbnailOpt(<<>>, NoRect, 100, 100),
    ThumbnailOpt(<<>>, Rect(10, 10, 50, 50), 20, 20) }

OwnOptLists == UNION { [1..n -> OwnOptMenu] : n \in 0..MaxOwnOpts }

OwnJobs ==
  { ThumbnailerMessage(s, FALSE, f, o) :
      s \in SrcImages, f \in OwnDstFolders, o \in OwnOptLists }

\* thumbnailerMessage.thumbURL: log.Fatalln ends the process when DstFolder
\* does not parse; the name is the base name, extension included, followed by
\* the crop and the size and .jpeg
main_thumbURL(job, baseName, opt) ==
  LET f    == ParseURL(job.DstFolder)
      size == FormatInt(opt.Width) \o <<"-">> \o FormatInt(opt.Height)
      name == IF opt.Rect # <<>>
                THEN LET r == opt.Rect[1]
                     IN  baseName \o <<"_","c","-">>
                           \o FormatInt(r.Min[1]) \o <<"-">> \o FormatInt(r.Min[2]) \o <<"-">>
                           \o FormatInt(r.Max[1]) \o <<"-">> \o FormatInt(r.Max[2])
                           \o <<"_","s","-">> \o size \o <<".","j","p","e","g">>
              ELSE IF opt.Width = 0 /\ opt.Height = 0 THEN baseName
              ELSE baseName \o <<"_","s","-">> \o size \o <<".","j","p","e","g">>
  IN  IF f.err # "nil" THEN [fatal |-> TRUE, url |-> NoURL]
      ELSE [fatal |-> FALSE, url |-> [f.url EXCEPT !.Path = Join(f.url.Path, name)]]

\* thumbnailerMessage.generateThumbnail up to the store handle
main_generateThumbnail(job, srcURL, img, opt) ==
  LET cropped  == IF opt.Rect # <<>> THEN Crop(img, newImageRect(opt.Rect[1])) ELSE img
      thumbImg == IF opt.Width = 0 /\ opt.Height = 0 THEN cropped
                  ELSE Resize(cropped, opt.Width, opt.Height)
      u        == main_thumbURL(job, Base(srcURL.Path), opt)
      t        == NewImageOpenSaver(Ptr(u.url))
  IN  [thumbImg |-> thumbImg, thumbURL |-> Ptr(u.url), fatal |-> u.fatal,
       thumb |-> Handle(t), err |-> t.err]

\* errorChan := make(chan error, 1)
O_Prepare ==
  /\ ~crashed /\ g_pc = "prepare"
  /\ errorChan' = <<>>
  /\ g_pc' = AfterLoops(1, 0)
  /\ UNCHANGED <<tm, files, crashed, g_sURL, g_src, g_img, g_maxThumb, g_k, g_i,
                 g_firstErr, g_out, units, sent, h_vars, c_vars>>

\* one iteration of the dispatch loop: go tm.generateThumbnail(errorChan, sURL, img, opt)
O_Dispatch ==
  /\ ~crashed /\ g_pc = "dispatch"
  /\ units' = [units EXCEPT ![g_k] =
                 [@ EXCEPT !.pc = "run", !.input = "img", !.img = g_img,
                           !.opt = tm.Opts[g_k]]]
  /\ g_k' = g_k + 1
  /\ g_pc' = AfterLoops(g_k + 1, 0)
  /\ UNCHANGED <<tm, files, crashed, g_sURL, g_src, g_img, g_maxThumb, g_i, g_firstErr,
                 g_out, errorChan, sent, h_vars, c_vars>>

\* one iteration of the collecting loop: err := <-errorChan; a non-nil err is
\* returned at once, nil is returned after len(tm.Opts) receives
O_Collect ==
  /\ ~crashed /\ g_pc = "collect"
  /\ errorChan # <<>>
  /\ LET err == Head(errorChan)
     IN  /\ g_out' = err
         /\ g_pc' = IF err # Nil THEN "signal" ELSE AfterLoops(g_k, g_i + 1)
  /\ errorChan' = Tail(errorChan)
  /\ g_i' = g_i + 1
  /\ UNCHANGED <<tm, files, crashed, g_sURL, g_src, g_img, g_maxThumb, g_k, g_firstErr,
                 units, sent, h_vars, c_vars>>

\* return err / return nil: HandleMessage returns what generateThumbnails returns
O_Return ==
  /\ ~crashed /\ g_pc = "signal"
  /\ g_pc' = "done"
  /\ h_ret' = g_out
  /\ h_pc' = "done"
  /\ UNCHANGED <<tm, files, crashed, g_sURL, g_src, g_img, g_maxThumb, g_k, g_i,
                 g_firstErr, g_out, errorChan, units, sent, h_received, errChanSends,
                 deleteCalls, c_vars>>

\* a unit from its start to the call of thumb.Save
O_Run(i) ==
  /\ ~crashed /\ units[i].pc = "run"
  /\ \E r \in {main_generateThumbnail(tm, g_sURL, units[i].img, units[i].opt)} :
       /\ units' = [units EXCEPT ![i] =
                      [@ EXCEPT !.pc = IF r.fatal THEN "exit"
                                       ELSE IF r.err # Nil THEN "send"
                                       ELSE "save",
                                !.thumbImg = r.thumbImg,
                                !.thumbURL = r.thumbURL,
                                !.thumb = r.thumb,
                                !.err = r.err]]
       /\ crashed' = r.fatal
  /\ UNCHANGED <<tm, files, g_vars, errorChan, sent, h_vars, c_vars>>

InitOwn ==
  /\ tm \in OwnJobs
  /\ files = InitialFiles
  /\ crashed = FALSE
  /\ g_pc = "parse"
  /\ g_sURL = NoURL
  /\ g_src = NoHandle
  /\ g_img = Image(0, 0)
  /\ g_maxThumb = <<>>
  /\ g_k = 1
  /\ g_i = 0
  /\ g_firstErr = Nil
  /\ g_out = Nil
  /\ errorChan = <<>>
  /\ units = [i \in 1..Len(tm.Opts) |-> IdleUnit(tm.Opts[i])]
  /\ sent = [i \in 1..Len(tm.Opts) |-> 0]
  /\ h_pc = "recv"
  /\ h_received = <<>>
  /\ h_ret = Nil
  /\ errChanSends = 0
  /\ deleteCalls = 0
  /\ results = <<>>
  /\ c_pc = "recv"
  /\ c_resp = NoResponse
  /\ closed = FALSE

NextOwn ==
  \/ G_Parse
  \/ G_Resolve
  \/ G_Open
  \/ O_Prepare
  \/ O_Dispatch
  \/ O_Collect
  \/ O_Return
  \/ \E i \in 1..N : O_Run(i)
  \/ \E i \in 1..N : U_Save(i)
  \/ \E i \in 1..N : U_Send(i)

SpecOwn == InitOwn /\ [][NextOwn]_vars

(***************************************************************************)
(* cmd/http_thumbnailer: thumbHandler, the request base64-encoded in the   *)
(* URL path                                                                *)
(***************************************************************************)
\* base64.URLEncoding: A-Z a-z 0-9 - _
encodeURL == UpperLetters \o LowerLetters \o DecDigits \o <<"-", "_">>

\* the code of a byte of the request, the inverse of ByteChar
CharCode(c) ==
  IF c \in Range(AsciiLow) THEN 31 + IndexOf(AsciiLow, c)
  ELSE 96 + IndexOf(AsciiHigh, c)

\* base64.NewEncoder(base64.URLEncoding, w); enc.Write(thumbReq); enc.Close():
\* three bytes become four characters, the last group is padded with =
RECURSIVE EncodeToString(_)
EncodeToString(src) ==
  IF src = <<>> THEN <<>>
  ELSE LET a == CharCode(src[1])
           b == IF Len(src) >= 2 THEN CharCode(src[2]) ELSE 0
           c == IF Len(src) >= 3 THEN CharCode(src[3]) ELSE 0
           c1 == encodeURL[(a \div 4) + 1]
           c2 == encodeURL[((a % 4) * 16 + (b \div 16)) + 1]
           c3 == encodeURL[((b % 16) * 4 + (c \div 64)) + 1]
           c4 == encodeURL[(c % 64) + 1]
       IN  IF Len(src) = 1 THEN <<c1, c2, "=", "=">>
           ELSE IF Len(src) = 2 THEN <<c1, c2, c3, "=">>
           ELSE <<c1, c2, c3, c4>> \o EncodeToString(Drop(src, 4))

decodeMap(c) == IndexOf(encodeURL, c) - 1

\* illegal base64 data, or a last group cut short
CorruptInputError == Err("illegal base64 data", NoURL)

\* io.Copy(&thumbReq, base64.NewDecoder(base64.URLEncoding, ...)): the
\* groups of four characters are decoded in order and written to thumbReq;
\* at the first corrupt group the copy stops with the error, and the bytes
\* decoded before it stay in thumbReq
RECURSIVE DecodeString(_, _)
DecodeString(src, out) ==
  IF src = <<>> THEN [bytes |-> out, err |-> Nil]
  ELSE IF Len(src) < 4 THEN [bytes |-> out, err |-> CorruptInputError]
  ELSE LET legal(k) == src[k] \in Range(encodeURL)
           v(k) == decodeMap(src[k])
           b1 == ByteChar(v(1) * 4 + (v(2) \div 16))
           b2 == ByteChar((v(2) % 16) * 16 + (v(3) \div 4))
           b3 == ByteChar((v(3) % 4) * 64 + v(4))
           rest == Drop(src, 5)
       IN  IF legal(1) /\ legal(2) /\ legal(3) /\ legal(4)
             THEN DecodeString(rest, out \o <<b1, b2, b3>>)
           ELSE IF legal(1) /\ legal(2) /\ legal(3) /\ src[4] = "="
             THEN [bytes |-> out \o <<b1, b2>>,
                   err |-> IF rest = <<>> THEN Nil ELSE CorruptInputError]
           ELSE IF legal(1) /\ legal(2) /\ src[3] = "=" /\ src[4] = "="
             THEN [bytes |-> out \o <<b1>>,
                   err |-> IF rest = <<>> THEN Nil ELSE CorruptInputError]
           ELSE [bytes |-> out, err |-> CorruptInputError]

Str(s) == <<"\"">> \o s \o <<"\"">>

MarshalBool(b) == IF b THEN <<"t","r","u","e">> ELSE <<"f","a","l","s","e">>

\* {"width":W,"height":H}: dstImage and rect are omitted when empty
MarshalOpt(opt) ==
  <<"{">> \o Str(<<"w","i","d","t","h">>) \o <<":">> \o FormatInt(opt.Width)
  \o <<",">> \o Str(<<"h","e","i","g","h","t">>) \o <<":">> \o FormatInt(opt.Height)
  \o <<"}">>

RECURSIVE MarshalOpts(_)
MarshalOpts(opts) ==
  IF opts = <<>> THEN <<>>
  ELSE MarshalOpt(Head(opts))
       \o (IF Len(opts) > 1 THEN <<",">> ELSE <<>>) \o MarshalOpts(Tail(opts))

\* the JSON text of a job, by the field names of the struct tags
Marshal(job) ==
  <<"{">> \o Str(<<"s","r","c","I","m","a","g","e">>) \o <<":">> \o Str(job.SrcImage)
  \o <<",">> \o Str(<<"d","e","l","e","t","e","S","r","c">>) \o <<":">>
  \o MarshalBool(job.DeleteSrc)
  \o <<",">> \o Str(<<"d","s","t","F","o","l","d","e","r">>) \o <<":">> \o Str(job.DstFolder)
  \o <<",">> \o Str(<<"o","p","t","s">>) \o <<":">> \o <<"[">> \o MarshalOpts(job.Opts)
  \o <<"]">> \o <<"}">>

\* tm := nsqthumbnailer.ThumbnailerMessage{}
ZeroMessage == ThumbnailerMessage(<<>>, FALSE, <<>>, <<>>)

MaxPathOpts == 2

PathOptMenu == { ThumbnailOpt(<<>>, NoRect, 100, 100), ThumbnailOpt(<<>>, NoRect, 0, 50) }

\* the jobs the requests of the model carry
PathJobs ==
  { ThumbnailerMessage(s, d, DstTmp, o) :
      s \in {SrcFilePic, SrcMissing}, d \in BOOLEAN,
      o \in UNION { [1..n -> PathOptMenu] : n \in 1..MaxPathOpts } }

SyntaxError == Err("json: syntax error", NoURL)

\* json.Unmarshal(thumbReq.Bytes(), &tm): the text of a job fills tm; any
\* other text of the model (the empty text, a text cut short, a text that is
\* no JSON) is an error and leaves tm as it was
Unmarshal(data, into) ==
  LET hit == { j \in PathJobs : Marshal(j) = data }
  IN  IF hit = {} THEN [tm |-> into, err |-> SyntaxError]
      ELSE [tm |-> CHOOSE j \in hit : TRUE, err |-> Nil]

\* URLNames["/thumb/"]
ThumbPrefix == <<"/","t","h","u","m","b","/">>

TrimPrefix(s, prefix) == IF HasPrefix(s, prefix) THEN Drop(s, Len(prefix) + 1) ELSE s

\* abc, which is no JSON
NotJSON == <<"a","b","c">>

\* r.URL.Path of the requests of the model: a job's encoding; the encoding
\* followed by a character outside the alphabet; the encoding behind such a
\* character; the encoding cut inside a group; the encoding of a text that is
\* no JSON
Paths ==
  UNION { { ThumbPrefix \o EncodeToString(Marshal(j)),
            ThumbPrefix \o EncodeToString(Marshal(j)) \o <<"!">>,
            ThumbPrefix \o <<"!">> \o EncodeToString(Marshal(j)),
            ThumbPrefix \o SubSeq(EncodeToString(Marshal(j)), 1, 6) } : j \in PathJobs }
  \cup { ThumbPrefix \o EncodeToString(NotJSON) }

\* one write to the response: what it is, the bytes or the error it carries
Part(what, data, err) == [what |-> what, data |-> data, err |-> err]

\* w.WriteHeader(code): the first status written stays
WriteHeader(resp, code) == IF resp.status = 0 THEN [resp EXCEPT !.status = code] ELSE resp

\* w.Write(...): a write before any WriteHeader answers 200
Write(resp, part) ==
  [WriteHeader(resp, 200) EXCEPT !.body = Append(@, part)]

\* http.Error(w, msg, code)
HttpError(resp, part, code) == Write(WriteHeader(resp, code), part)

FailedToDecode == Part("failed to decode the thumb generation request", <<>>, CorruptInputError)

\* thumbHandler from its entry to go tm.GenerateThumbnails(errChan): the
\* path is decoded, a decoding error is answered with a 400 and execution
\* goes on; the decoded bytes are written back and unmarshalled, an error
\* there is answered with a 400 and the handler returns; otherwise the
\* generation is started
TH_Request ==
  /\ ~crashed /\ c_pc = "entry"
  /\ \E urlPath \in Paths :
       LET path == TrimPrefix(urlPath, ThumbPrefix)
           d    == DecodeString(path, <<>>)
           r1   == IF d.err # Nil THEN HttpError(NoResponse, FailedToDecode, 400)
                   ELSE NoResponse
           r2   == Write(Write(r1, Part("[DEBUG] thumb request:", <<>>, Nil)),
                         Part("thumbReq", d.bytes, Nil))
           u    == Unmarshal(d.bytes, tm)
       IN  IF u.err # Nil
             THEN /\ c_resp' = HttpError(r2, Part("failed to unmarshal thumbReq", <<>>, u.err), 400)
                  /\ c_pc' = "done"
                  /\ UNCHANGED <<tm, units, sent, g_pc>>
             ELSE /\ c_resp' = r2
                  /\ c_pc' = "recv"
                  /\ tm' = u.tm
                  /\ units' = [i \in 1..Len(u.tm.Opts) |-> IdleUnit(u.tm.Opts[i])]
                  /\ sent' = [i \in 1..Len(u.tm.Opts) |-> 0]
                  /\ g_pc' = "parse"
  /\ UNCHANGED <<files, crashed, g_sURL, g_src, g_img, g_maxThumb, g_k, g_i, g_firstErr,
                 g_out, errorChan, h_vars, results, closed>>

\* err = <-errChan, the rendezvous with GenerateThumbnails' send; a non-nil
\* err is answered with a 500, otherwise the source is deleted if asked for
TH_Receive ==
  /\ ~crashed /\ c_pc = "recv" /\ g_pc = "signal"
  /\ g_pc' = "done"
  /\ errChanSends' = errChanSends + 1
  /\ h_received' = Append(h_received, g_out)
  /\ IF g_out # Nil
       THEN /\ c_resp' = HttpError(c_resp, Part("err", <<>>, g_out), 500)
            /\ c_pc' = "done"
       ELSE /\ c_resp' = c_resp
            /\ c_pc' = IF tm.DeleteSrc THEN "delete" ELSE "done"
  /\ UNCHANGED <<tm, files, crashed, g_sURL, g_src, g_img, g_maxThumb, g_k, g_i,
                 g_firstErr, g_out, errorChan, units, sent, h_pc, h_ret, deleteCalls,
                 results, closed>>

\* err = tm.DeleteImage(); an error is answered with a 500
TH_Delete ==
  /\ ~crashed /\ c_pc = "delete"
  /\ \E r \in {DeleteImage(tm, files)} :
       /\ files' = r.files
       /\ c_resp' = IF r.err # Nil THEN HttpError(c_resp, Part("err", <<>>, r.err), 500)
                    ELSE c_resp
  /\ deleteCalls' = deleteCalls + 1
  /\ c_pc' = "done"
  /\ UNCHANGED <<tm, crashed, g_vars, errorChan, units, sent, h_pc, h_received, h_ret,
                 errChanSends, results, closed>>

\* the handler is entered, no generation is running
InitThumb ==
  /\ tm = ZeroMessage
  /\ files = InitialFiles
  /\ crashed = FALSE
  /\ g_pc = "unstarted"
  /\ g_sURL = NoURL
  /\ g_src = NoHandle
  /\ g_img = Image(0, 0)
  /\ g_maxThumb = <<>>
  /\ g_k = 1
  /\ g_i = 0
  /\ g_firstErr = Nil
  /\ g_out = Nil
  /\ errorChan = <<>>
  /\ units = <<>>
  /\ sent = <<>>
  /\ h_pc = "recv"
  /\ h_received = <<>>
  /\ h_ret = Nil
  /\ errChanSends = 0
  /\ deleteCalls = 0
  /\ results = <<>>
  /\ c_pc = "entry"
  /\ c_resp = NoResponse
  /\ closed = FALSE

NextThumb ==
  \/ TH_Request
  \/ G_Parse
  \/ G_Resolve
  \/ G_Open
  \/ G_Prepare
  \/ G_Dispatch
  \/ G_Collect
  \/ \E i \in 1..N : U_Run(i)
  \/ \E i \in 1..N : U_Save(i)
  \/ \E i \in 1..N : U_Send(i)
  \/ TH_Receive
  \/ TH_Delete

SpecThumb == InitThumb /\ [][NextThumb]_vars

(***************************************************************************)
(* thumbsHandler on any job, the source that does not open included.  The  *)
(* abort of the result-stream producer is modelled from the specification  *)
(* (section 4.4, step 1 and the state Failed): a source-open failure ends  *)
(* the Job before any Option work starts, with no per-Option Result.       *)
(***************************************************************************)
\* Opening -> Failed: no unit is dispatched, nothing is sent on resultChan
R_Abort ==
  /\ g_pc = "signal" /\ g_out # Nil
  /\ g_pc' = "failed"
  /\ UNCHANGED <<tm, files, crashed, g_sURL, g_src, g_img, g_maxThumb, g_k, g_i,
                 g_firstErr, g_out, errorChan, units, sent, h_vars, c_vars>>

NextHTTPAny ==
  \/ G_Parse
  \/ G_Resolve
  \/ G_Open
  \/ R_Abort
  \/ G_Prepare
  \/ G_Dispatch
  \/ \E i \in 1..N : R_Run(i)
  \/ \E i \in 1..N : U_Save(i)
  \/ \E i \in 1..N : T_Receive(i)
  \/ T_Check
  \/ T_Delete

SpecHTTPAny == Init /\ [][NextHTTPAny]_vars

(***************************************************************************)
(* Properties                                                              *)
(***************************************************************************)
\* unit i has its outcome, and it is a failure
UnitFailed(i) ==
  \/ units[i].pc = "panic"
  \/ units[i].pc \in {"send", "done"} /\ units[i].err # Nil

\* unit i has its outcome, and it is a success
UnitSucceeded(i) == units[i].pc \in {"send", "done"} /\ units[i].err = Nil

\* C1: every dispatched unit delivers exactly one result on errorChan, on
\* every path: never two, and one once the unit has ended, whichever way
C1_ExactlyOneResultPerUnit ==
  \A i \in 1..N :
    /\ sent[i] <= 1
    /\ units[i].pc \in {"done", "panic"} => sent[i] = 1

\* C2: GenerateThumbnails is at or past its send on errChan, the source
\* having opened, only when it has received the result of every one of the
\* len(Opts) units, failed ones among them or not
C2_SignalAfterAllResults ==
  (g_pc \in {"signal", "done"} /\ tm.SrcImage \in OpenableSources) =>
    /\ g_i = N
    /\ errorChan = <<>>
    /\ \A i \in 1..N : units[i].pc = "done" /\ sent[i] = 1

C2_Witness ==
  /\ g_pc = "done" /\ N = 2
  /\ UnitFailed(1) /\ units[1].pc = "done"
  /\ UnitSucceeded(2) /\ units[2].pc = "done"

\* C3: a source that cannot be opened gives one job-level failure and nothing
\* else: no unit is dispatched, no result is produced or received, no file is
\* written, and the handler receives exactly one, non-nil, error
C3_SourceFailureAbortsJob ==
  tm.SrcImage \in UnopenableSources =>
    /\ g_pc \in {"parse", "resolve", "open", "signal", "done"}
    /\ \A i \in 1..N : units[i].pc = "idle" /\ sent[i] = 0
    /\ errorChan = <<>> /\ g_i = 0
    /\ files = InitialFiles
    /\ errChanSends <= 1
    /\ g_pc = "done" => /\ errChanSends = 1
                        /\ Len(h_received) = 1
                        /\ h_received[1] # Nil
                        /\ h_ret = h_received[1]
                        /\ h_pc = "done"

C3_Witness == tm.SrcImage = SrcFtp /\ N = 2 /\ g_pc = "done" /\ h_pc = "done"

\* what holds of DeleteImage's calls in every state
C4_DeleteGuard ==
  /\ deleteCalls > 0 =>
       /\ tm.DeleteSrc
       /\ g_i = N
       /\ \A i \in 1..N : units[i].pc = "done" /\ units[i].err = Nil
  /\ (\E i \in 1..N : UnitFailed(i)) =>
       /\ deleteCalls = 0
       /\ h_pc # "delete"
       /\ InitialFiles \subseteq files

\* C4: DeleteImage is called only when deleteSrc is set and every option's
\* result has been received and is a success; once an option has failed it is
\* never called, the files present before the job are intact, and no step
\* removes or changes a file already written
C4_DeleteOnlyAfterFullSuccess ==
  /\ []C4_DeleteGuard
  /\ [][(\E i \in 1..N : UnitFailed(i)) => files \subseteq files']_vars

C4_Witness ==
  /\ tm.DeleteSrc /\ N = 2 /\ h_pc = "done"
  /\ UnitSucceeded(1) /\ UnitFailed(2)
  /\ files # InitialFiles /\ InitialFiles \subseteq files

\* C5 as stated: a job with zero options ends with no job-level error
C5_Original ==
  (N = 0 /\ h_pc = "done") => h_received = <<Nil>>

\* C5, amended: a job with zero options whose source opens never waits for a
\* result and ends with zero results and nil on errChan
C5_ZeroOptions ==
  (N = 0 /\ tm.SrcImage \in OpenableSources) =>
    /\ g_pc \notin {"dispatch", "collect"}
    /\ errorChan = <<>> /\ g_i = 0
    /\ g_pc = "done" => h_received = <<Nil>>

C5_Witness ==
  N = 0 /\ tm.SrcImage = SrcFilePic /\ g_pc = "done" /\ h_received = <<Nil>>

\* C6: once an option has failed, the handler has observed the result of
\* every option, one value per option, successes included
C6_EveryResultObservable ==
  (h_pc # "recv" /\ \E i \in 1..N : UnitFailed(i)) => Len(h_received) = N

\* C7: an option whose destination URI does not parse is that option's
\* failure: its unit does not crash, reports an error, and the process and
\* the sibling units go on
C7_MalformedDestinationCaptured ==
  \A i \in 1..N :
    units[i].urlErr # Nil =>
      /\ ~crashed
      /\ units[i].pc \in {"send", "done"}
      /\ units[i].err # Nil

\* the sources whose scheme is file, and the file of the one that exists
FileSchemeSources == {SrcFilePic, SrcMissing}

SourceFile ==
  File("fs", <<>>, <<"/","d","a","t","a","/","P","i","c",".","J","P","G">>,
       TRUE, SrcBounds)

\* DeleteImage as a function of the job and the files, whoever calls it
C8_Direct ==
  LET r == DeleteImage(tm, files)
  IN  /\ tm.SrcImage \in {SrcS3Pic, SrcFtp} =>
           r.files = files /\ r.err.kind = "DeleteImage is not implemented"
      /\ r.files # files =>
           tm.SrcImage \in FileSchemeSources /\ r.files = files \ {SourceFile}
      /\ r.err = Nil => r.files # files

\* C8: a call of DeleteImage removes the source file, and nothing else, when
\* the source's scheme is file; for any other scheme it returns the
\* not-implemented error and leaves every file in place
C8_DeleteImageLocalOnly ==
  /\ []C8_Direct
  /\ [][(h_pc = "delete" /\ h_pc' = "done") =>
       IF tm.SrcImage \in FileSchemeSources
         THEN files' = files \ {SourceFile} /\ SourceFile \in files /\ h_ret' = Nil
         ELSE files' = files /\ h_ret'.kind = "DeleteImage is not implemented"]_vars

C8_Witness ==
  /\ tm.SrcImage = SrcS3Pic /\ h_pc = "done" /\ deleteCalls = 1
  /\ h_ret.kind = "DeleteImage is not implemented"
  /\ InitialFiles \subseteq files

\* the handle NewImageOpenSaver owes a URL
SchemeFile == <<"f","i","l","e">>

SchemeS3 == <<"s","3">>

RightHandle(u, handle) ==
  /\ u.Scheme = SchemeFile => handle = [store |-> "fs", URL |-> u]
  /\ u.Scheme = SchemeS3 => handle = [store |-> "s3", URL |-> u]
  /\ u.Scheme \notin {SchemeFile, SchemeS3} => handle = NoHandle

\* C9: a store handle is chosen by the URL's scheme alone: file gives the
\* filesystem store on that URL, s3 the s3 store on that URL, any other
\* scheme, the empty one included, no handle and an error carrying the URL.
\* Checked on the source's handle and on every unit's.
C9_StoreByScheme ==
  /\ g_pc \notin {"parse", "resolve"} /\ tm.SrcImage # SrcUnparseable =>
       /\ RightHandle(g_sURL, g_src)
       /\ g_src = NoHandle =>
            g_pc \in {"signal", "done"} /\ g_out = Err("imageOpenSaverError", g_sURL)
  /\ \A i \in 1..N :
       units[i].pc \in {"save", "send", "done"} =>
         /\ RightHandle(units[i].thumbURL.url, units[i].thumb)
         /\ units[i].thumb = NoHandle =>
              /\ units[i].pc # "save"
              /\ units[i].err = Err("imageOpenSaverError", units[i].thumbURL.url)

C9_Witness ==
  \E i \in 1..N :
    /\ units[i].pc = "done"
    /\ units[i].thumbURL.url.Scheme = <<>>
    /\ units[i].thumbURL.url.Path = <<"/","t","m","p","/","o",".","j","p","g">>
    /\ units[i].thumb = NoHandle
    /\ g_src.store = "s3"

\* the names expected for the two sources that open, written out
ExpectedBase == IF tm.SrcImage = SrcFilePic THEN <<"P","i","c">> ELSE <<"p","i","c">>

ExpectedExt ==
  IF tm.SrcImage = SrcFilePic THEN <<".","j","p","g">> ELSE <<".","p","n","g">>

ExpectedName(opt) ==
  IF opt.Rect = <<>>
    THEN ExpectedBase \o <<"_","s">> \o FormatInt(opt.Width) \o <<"x">>
           \o FormatInt(opt.Height) \o ExpectedExt
    ELSE ExpectedBase \o <<"_","c">>
           \o FormatInt(opt.Rect[1].Min[1]) \o <<"-">> \o FormatInt(opt.Rect[1].Min[2])
           \o <<"-">>
           \o FormatInt(opt.Rect[1].Max[1]) \o <<"-">> \o FormatInt(opt.Rect[1].Max[2])
           \o <<"_","s">> \o FormatInt(opt.Width) \o <<"x">> \o FormatInt(opt.Height)
           \o ExpectedExt

\* C10: without an explicit destination the output path is DstFolder's path,
\* a slash and {base}_s{width}x{height}{ext}, or with a crop
\* {base}_c{minX}-{minY}-{maxX}-{maxY}_s{width}x{height}{ext}: base is the
\* source file name without its extension, ext the source extension in lower
\* case, width and height the resolved ones.  Pic.JPG, file:///tmp, 100x100
\* gives /tmp/Pic_s100x100.jpg.
C10_ThumbURLNaming ==
  \A i \in 1..N :
    (units[i].pc \in {"save", "send", "done"} /\ tm.Opts[i].DstImage = <<>>) =>
      /\ units[i].thumbURL.url.Scheme = SchemeFile
      /\ units[i].thumbURL.url.Path = <<"/","t","m","p","/">> \o ExpectedName(units[i].opt)
      /\ units[i].opt.Width = units[i].thumbImg.W
      /\ units[i].opt.Height = units[i].thumbImg.H
      /\ (tm.SrcImage = SrcFilePic /\ tm.Opts[i] = ThumbnailOpt(<<>>, NoRect, 100, 100)) =>
           units[i].thumbURL.url.Path =
             <<"/","t","m","p","/","P","i","c","_","s","1","0","0","x","1","0","0",".","j","p","g">>
      /\ (tm.SrcImage = SrcFilePic
            /\ tm.Opts[i] = ThumbnailOpt(<<>>, Rect(10, 10, 50, 50), 20, 20)) =>
           units[i].thumbURL.url.Path =
             <<"/","t","m","p","/","P","i","c","_","c","1","0","-","1","0","-","5","0","-","5","0",
               "_","s","2","0","x","2","0",".","j","p","g">>

C10_Witness ==
  /\ tm.SrcImage = SrcFilePic /\ N = 2
  /\ tm.Opts[1] = ThumbnailOpt(<<>>, NoRect, 100, 100)
  /\ tm.Opts[2] = ThumbnailOpt(<<>>, Rect(10, 10, 50, 50), 20, 20)
  /\ units[1].pc = "done" /\ units[2].pc = "done"
  /\ units[1].thumbURL.url.Path =
       <<"/","t","m","p","/","P","i","c","_","s","1","0","0","x","1","0","0",".","j","p","g">>

\* the explicit destinations of the options, and the URL each is when parsed
DstTmpOJpg == <<"/","t","m","p","/","o",".","j","p","g">>

DstFileOutXyz == <<"f","i","l","e",":","/","/","/","t","m","p","/","o","u","t",".","x","y","z">>

DstS3OPng == <<"s","3",":","/","/","b","u","c","k","e","t","/","o",".","p","n","g">>

DstFileCPng == <<"f","i","l","e",":","/","/","/","t","m","p","/","c",".","p","n","g">>

ExplicitURL(dstImage) ==
  IF dstImage = DstTmpOJpg
    THEN [Scheme |-> <<>>, Opaque |-> <<>>, Host |-> <<>>, Path |-> <<"/","t","m","p","/","o",".","j","p","g">>]
  ELSE IF dstImage = DstFileOutXyz
    THEN [Scheme |-> SchemeFile, Opaque |-> <<>>, Host |-> <<>>, Path |-> <<"/","t","m","p","/","o","u","t",".","x","y","z">>]
  ELSE IF dstImage = DstS3OPng
    THEN [Scheme |-> SchemeS3, Opaque |-> <<>>, Host |-> <<"b","u","c","k","e","t">>, Path |-> <<"/","o",".","p","n","g">>]
  ELSE [Scheme |-> SchemeFile, Opaque |-> <<>>, Host |-> <<>>, Path |-> <<"/","t","m","p","/","c",".","p","n","g">>]

ExplicitDsts == {DstTmpOJpg, DstFileOutXyz, DstS3OPng, DstFileCPng}

\* thumbURL on every explicit destination with every crop and size, for the
\* job's DstFolder and the source's name
C11_Direct ==
  \A d \in ExplicitDsts, r \in {NoRect, Rect(10, 10, 50, 50)}, w \in {0, 20}, h \in {0, 30} :
    thumbURL(tm, Base(g_sURL.Path), ThumbnailOpt(d, r, w, h))
      = [ptr |-> Ptr(ExplicitURL(d)), err |-> Nil]

\* C11: with an explicit destination that parses, the output URI is that URI
\* as parsed, whatever DstFolder, the source's name, the crop rectangle and
\* the width and height are
C11_ExplicitDestinationVerbatim ==
  /\ g_pc = "prepare" => C11_Direct
  /\ \A i \in 1..N :
       (units[i].pc \in {"save", "send", "done"} /\ tm.Opts[i].DstImage \in ExplicitDsts) =>
         units[i].thumbURL = Ptr(ExplicitURL(tm.Opts[i].DstImage))

C11_Witness ==
  \E i \in 1..N :
    /\ tm.DstFolder = DstMalformed
    /\ tm.Opts[i].DstImage = DstS3OPng
    /\ units[i].pc = "done" /\ units[i].err = Nil
    /\ units[i].thumbURL.url.Path = <<"/","o",".","p","n","g">>
    /\ \E f \in files : f.store = "s3" /\ f.path = <<"/","o",".","p","n","g">>

\* C12: an option without crop, without explicit destination and with
\* width = 0 and height = 0 is written under the name {base}: the source's
\* base name, its extension dropped
C12_NoResizeNameIsBase ==
  \A i \in 1..N :
    (units[i].pc \in {"save", "send", "done"}
       /\ tm.Opts[i] = ThumbnailOpt(<<>>, NoRect, 0, 0)) =>
      units[i].thumbURL.url.Path = <<"/","t","m","p","/">> \o ExpectedBase

\* the image unit i wrote at its destination, if it wrote one
Written(i) ==
  { f \in files : /\ f.store = units[i].thumb.store
                  /\ f.host = LocHost(units[i].thumb)
                  /\ f.path = units[i].thumbURL.url.Path }

\* C13: a crop-free option with width = 0 and height = 0 gives an image of
\* the source's dimensions, however many options the job has
C13_NoResizeKeepsSourceDimensions ==
  \A i \in 1..N :
    (tm.Opts[i].Rect = NoRect /\ tm.Opts[i].Width = 0 /\ tm.Opts[i].Height = 0) =>
      /\ units[i].pc \in {"save", "send", "done"} => units[i].thumbImg = SrcBounds
      /\ UnitSucceeded(i) => \A f \in Written(i) : f.img = SrcBounds

\* C14: a crop-free option with height 50 and width 0 gives an image 50 high
\* and round(50 * 640 / 480) = 67 wide, the source being 640x480, however
\* many options the job has; the file name carries these resolved values
C14_DerivedDimensionFromSource ==
  \A i \in 1..N :
    (tm.Opts[i].Rect = NoRect /\ tm.Opts[i].Width = 0 /\ tm.Opts[i].Height = 50
       /\ units[i].pc \in {"save", "send", "done"}) =>
      /\ units[i].thumbImg = Image(67, 50)
      /\ AspectDim(50, SrcBounds.W, SrcBounds.H) = 67
      /\ tm.Opts[i].DstImage = <<>> =>
           units[i].thumbURL.url.Path =
             <<"/","t","m","p","/">> \o ExpectedBase \o <<"_","s","6","7","x","5","0">>
               \o ExpectedExt

\* C15: a save on the filesystem store that fails leaves the files as they
\* were, nothing created and nothing modified; when the destination's
\* extension, in lower case, is not in formats the failure is the
\* unsupported-format error
C15_FailedLocalSaveLeavesNoFile ==
  [][\A i \in 1..N :
       (units[i].pc = "save" /\ units[i].thumb.store = "fs"
          /\ units'[i].pc = "send" /\ units'[i].err # Nil) =>
         /\ files' = files
         /\ ToLower(Ext(units[i].thumb.URL.Path)) \notin formats =>
              units'[i].err = ErrUnsupportedFormat]_vars

\* what GenerateThumbnails reports in the run where the units' results are
\* received in the order of the options: the error of the first failed option
InOrderOutcome ==
  LET failed == { i \in 1..N : units[i].err # Nil }
  IN  IF failed = {} THEN Nil ELSE units[SetMin(failed)].err

\* C16: the outcome of a job does not depend on how the units interleave:
\* every run reports what the run that receives the results in the order of
\* the options reports, the same failure or the same success
C16_OutcomeIndependentOfInterleaving ==
  (g_pc \in {"signal", "done"} /\ tm.SrcImage \in OpenableSources) =>
    g_out = InOrderOutcome

\* the crop-free options of the job, and their width and height resolved
\* against the source's dimensions
CropFree == { i \in 1..N : tm.Opts[i].Rect = NoRect }

ResolvedW(opt) ==
  IF opt.Width = 0 THEN AspectDim(opt.Height, SrcBounds.W, SrcBounds.H) ELSE opt.Width

ResolvedH(opt) ==
  IF opt.Height = 0 THEN AspectDim(opt.Width, SrcBounds.H, SrcBounds.W) ELSE opt.Height

\* C19: in a job with more than one option the shared pre-resize has the
\* largest resolved width and the largest resolved height of the crop-free
\* options; the options with a crop rectangle do not count.  Stated on the
\* jobs that have a crop-free option, none of them 0x0.
C19_MaxBoxOverCropFreeOnly ==
  (/\ g_maxThumb # <<>>
   /\ CropFree # {}
   /\ \A i \in CropFree : tm.Opts[i].Width # 0 \/ tm.Opts[i].Height # 0) =>
    /\ N > 1
    /\ g_maxThumb[1].W = SetMax({ ResolvedW(tm.Opts[i]) : i \in CropFree })
    /\ g_maxThumb[1].H = SetMax({ ResolvedH(tm.Opts[i]) : i \in CropFree })

\* C20: an option with a crop rectangle is generated from the full-resolution
\* source img, never from the shared pre-resize; maxThumb is passed only to
\* crop-free options, and only in a job with more than one option
C20_CropUsesFullResolutionSource ==
  \A i \in 1..N :
    units[i].pc # "idle" =>
      /\ tm.Opts[i].Rect # NoRect =>
           units[i].input = "img" /\ units[i].img = g_img /\ g_img = SrcBounds
      /\ units[i].input = "maxThumb" =>
           /\ tm.Opts[i].Rect = NoRect /\ N > 1
           /\ g_maxThumb # <<>> /\ units[i].img = g_maxThumb[1]
      /\ N = 1 => units[i].input = "img" /\ units[i].img = g_img

C20_Witness ==
  /\ N = 2
  /\ tm.Opts[1] = ThumbnailOpt(<<>>, NoRect, 100, 100)
  /\ tm.Opts[2] = ThumbnailOpt(<<>>, Rect(10, 10, 50, 50), 20, 20)
  /\ units[1].pc = "done" /\ units[1].input = "maxThumb" /\ units[1].img = Image(100, 100)
  /\ units[2].pc = "done" /\ units[2].input = "img" /\ units[2].img = SrcBounds
  /\ units[2].thumbImg = Image(20, 20)

\* C17: the list thumbsHandler writes has one entry per option, the j-th
\* entry being the result of the j-th option of the request, in whatever
\* order the units complete
C17_ResultsInDispatchOrder ==
  c_resp.status = 200 =>
    /\ Len(c_resp.body) = N
    /\ \A j \in 1..N : c_resp.body[j] = ResultOf(units[j])

\* the files at the location a result names
AtLocation(thumbnail) ==
  { f \in files :
      /\ f.path = thumbnail.url.Path
      /\ \/ thumbnail.url.Scheme = SchemeFile /\ f.store = "fs"
         \/ /\ thumbnail.url.Scheme = SchemeS3 /\ f.store = "s3"
            /\ f.host = thumbnail.url.Host }

\* what holds of the stream in every state
C18_Stream ==
  /\ Len(results) <= N
  /\ \A i \in 1..N : sent[i] <= 1
  /\ closed =>
       /\ Len(results) = N
       /\ \A i \in 1..N : sent[i] = 1 /\ \E j \in 1..N : results[j] = ResultOf(units[i])
  /\ c_pc = "done" => closed
  /\ \A j \in 1..Len(results) :
       IF results[j].Err = Nil
         THEN ~results[j].Thumbnail.nil /\ AtLocation(results[j].Thumbnail) # {}
         ELSE results[j].Thumbnail = NilPtr

BlockedForever(i) ==
  /\ units[i].pc = "send"
  /\ Len(errorChan) = errorChanCap
  /\ g_pc \in {"signal", "done"}

\* C21: once dispatched, every option unit delivers its result, also after a
\* sibling failed and the orchestrating function returned: no unit is left
\* blocked forever on the results channel, in the consumers' own
\* generateThumbnails as in GenerateThumbnails
C21_NoUnitBlockedForever == \A i \in 1..N : ~BlockedForever(i)

\* C22: GenerateThumbnails and generateThumbnail never change the caller's
\* job: no step changes tm.SrcImage, tm.DstFolder, tm.DeleteSrc or an element
\* of tm.Opts, and an option whose zero width or height a unit resolved for
\* naming keeps its zero in tm.Opts
C22_JobNeverChanged == [][tm' = tm]_vars

\* option 0x50 of a two-option job is saved under its resolved width while
\* tm.Opts still holds the zero
C22_Witness ==
  /\ N = 2
  /\ tm.Opts[2].Width = 0 /\ tm.Opts[2].Height = 50
  /\ units[2].pc = "done" /\ units[2].err = Nil
  /\ units[2].opt.Width > 0
  /\ g_pc = "done"

\* C23: every call of GenerateThumbnails(errChan) sends exactly one value on
\* errChan, on every path: never a second one, and one by the time the call
\* is over, whichever way it ended
C23_ExactlyOneSendPerCall ==
  /\ errChanSends <= 1
  /\ g_pc = "done" => errChanSends = 1
  /\ crashed => errChanSends = 1

\* the value delivered on errChan, the source having opened: it is firstErr;
\* it is nil exactly when every option succeeded, and then every unit is past
\* its Save, which returned nil; otherwise it is the error of a failed option
C24_Delivered ==
  (h_received # <<>> /\ tm.SrcImage \in OpenableSources) =>
    LET v == h_received[1]
    IN  /\ v = g_firstErr
        /\ \A i \in 1..N : units[i].pc = "done"
        /\ (v = Nil) <=> (\A i \in 1..N : units[i].err = Nil)
        /\ v = Nil => \A i \in 1..N : At(files, units[i].thumb) # {}
        /\ v # Nil => \E i \in 1..N : UnitFailed(i) /\ units[i].err = v

\* what a unit sends is its own outcome, and firstErr is the first non-nil
\* value the collecting loop receives: it is set from nil by the receive of a
\* non-nil value and never changes afterwards
C24_FirstReceived ==
  /\ \A i \in 1..N : sent'[i] = sent[i] + 1 => errorChan' = Append(errorChan, units[i].err)
  /\ (g_i' = g_i + 1 /\ g_firstErr = Nil) => g_firstErr' = Head(errorChan)
  /\ g_firstErr # Nil => g_firstErr' = g_firstErr

\* C24: after the source is opened, the value delivered on errChan is nil if
\* and only if every option succeeded; when it is nil every option's Save has
\* returned successfully, and when it is not it is the error of the failing
\* option whose result was received first
C24_DeliveredIsFirstError == []C24_Delivered /\ [][C24_FirstReceived]_vars

\* both options fail, with different errors, and the handler holds the second
\* option's
C24_Witness ==
  /\ N = 2 /\ h_received # <<>>
  /\ units[1].err # Nil /\ units[2].err # Nil /\ units[1].err # units[2].err
  /\ h_received[1] = units[2].err

(***************************************************************************)
(* thumbHandler on a request that does not decode                          *)
(***************************************************************************)
\* the first write of the response is the answer to a decoding failure
DecodeFailed == c_resp.body # <<>> /\ c_resp.body[1] = FailedToDecode

\* C25: a request whose base64 decoding fails is answered with a 400 and
\* nothing else happens: no thumbnail generation is started for it and its
\* source is never deleted
C25_DecodeFailureOnlyAnswers400 ==
  DecodeFailed =>
    /\ c_resp.status = 400
    /\ g_pc = "unstarted"
    /\ deleteCalls = 0
    /\ files = InitialFiles

(***************************************************************************)
(* thumbsHandler's receiving loop                                          *)
(***************************************************************************)
\* the handler is inside its loop of len(tm.Opts) receives, the producer has
\* ended in Failed and no step of the program can be taken any more
ReceiveLoopStuck ==
  /\ c_pc = "recv" /\ Len(results) < N
  /\ g_pc = "failed"
  /\ c_resp = NoResponse
  /\ ~ENABLED NextHTTPAny

\* C26: for every job the loop of len(Opts) receives on the result channel
\* terminates and thumbsHandler writes a response, also for a job with
\* several options whose source cannot be opened: the handler is never left
\* waiting for a Result that no unit will send
C26_ReceiveLoopTerminates == ~ReceiveLoopStuck

====
